---- MODULE Spec2Model ----
(***************************************************************************)
(* The WebDriver wire-protocol codec of webdriver-rust: the request        *)
(* decoder WebDriverMessage::from_http with its parameter validators, the  *)
(* command encoder (ToJson for WebDriverMessage) and the error taxonomy    *)
(* (ErrorStatus, WebDriverError).                                          *)
(*                                                                         *)
(* All of it is pure code, so the state of a specification is one call:    *)
(* its inputs, drawn by Init from bounded sets, and the values the calls   *)
(* have returned so far.  Three specifications share the variables:        *)
(*   Spec        a request through from_http, then through to_json;        *)
(*   SpecParams  one parameter validator on an arbitrary JSON value,       *)
(*               then the record's to_json;                                *)
(*   SpecErr     construction and rendering of a WebDriverError.           *)
(***************************************************************************)
EXTENDS Integers, Sequences, FiniteSets, TLC

VARIABLES
    pc,             \* position of the call sequence
    route,          \* match_type: the Route handed to from_http
    params,         \* the path captures: capture name -> captured text
    body,           \* the raw request body
    requires_body,  \* the requires_body flag
    result,         \* WebDriverResult returned by from_http / from_json
    encoded,        \* Json returned by to_json
    record,         \* SpecParams: the record type whose validator is called
    json,           \* SpecParams: the Json value handed to the validator
    err,            \* SpecErr: the WebDriverError under construction
    rendered        \* SpecErr: what the error's accessors returned

vars == <<pc, route, params, body, requires_body, result, encoded,
          record, json, err, rendered>>

(***************************************************************************)
(* Bounds of the input sets.                                               *)
(***************************************************************************)
\* Unsigned integers in request bodies range over 0..MaxNum.
MaxNum == 1
\* Arrays in request bodies have at most MaxArrayLen elements.
MaxArrayLen == 2

(***************************************************************************)
(* Option<T> and Result<T, WebDriverError>.                                *)
(***************************************************************************)
None == <<>>
Some(x) == <<x>>
is_some(o) == o # <<>>
unwrap(o) == o[1]

Ok(x) == [ok |-> TRUE, value |-> x]
Err(e) == [ok |-> FALSE, error |-> e]

(***************************************************************************)
(* rustc_serialize::json::Json, the tree the decoder consumes.  An Object  *)
(* value is the pair of its variant and what the variant holds; an Object *)
(* holds a BTreeMap, a function from its keys to Json values.  F64 values  *)
(* are counted in halves, so that F64(2) is 1.0 and F64(3) is 1.5.         *)
(***************************************************************************)
JsonNull == <<"Null">>
JsonBoolean(b) == <<"Boolean", b>>
JsonI64(n) == <<"I64", n>>
JsonU64(n) == <<"U64", n>>
JsonF64(h) == <<"F64", h>>
JsonString(s) == <<"String", s>>
JsonArray(a) == <<"Array", a>>
JsonObject(m) == <<"Object", m>>

as_object(j) == IF j[1] = "Object" THEN Some(j[2]) ELSE None
as_array(j) == IF j[1] = "Array" THEN Some(j[2]) ELSE None
as_string(j) == IF j[1] = "String" THEN Some(j[2]) ELSE None
as_boolean(j) == IF j[1] = "Boolean" THEN Some(j[2]) ELSE None
as_u64(j) ==
    CASE j[1] = "U64" -> Some(j[2])
      [] j[1] = "I64" /\ j[2] >= 0 -> Some(j[2])
      [] OTHER -> None
as_f64(j) ==
    CASE j[1] = "F64" -> Some(j[2])
      [] j[1] \in {"I64", "U64"} -> Some(2 * j[2])
      [] OTHER -> None

\* BTreeMap::get
get(data, key) == IF key \in DOMAIN data THEN Some(data[key]) ELSE None

(***************************************************************************)
(* The error taxonomy (error.rs).                                          *)
(***************************************************************************)
ErrorStatus ==
    {"ElementNotSelectable", "ElementNotVisible", "InsecureCertificate",
     "InvalidArgument", "InvalidCookieDomain", "InvalidElementCoordinates",
     "InvalidElementState", "InvalidSelector", "InvalidSessionId",
     "JavascriptError", "MoveTargetOutOfBounds", "NoSuchAlert",
     "NoSuchElement", "NoSuchFrame", "NoSuchWindow", "ScriptTimeout",
     "SessionNotCreated", "StaleElementReference", "Timeout",
     "UnableToSetCookie", "UnexpectedAlertOpen", "UnknownError",
     "UnknownMethod", "UnknownPath", "UnsupportedOperation"}

status_code_shared(kind) ==
    CASE kind = "ElementNotSelectable" -> "element not selectable"
      [] kind = "ElementNotVisible" -> "element not visible"
      [] kind = "InsecureCertificate" -> "insecure certificate"
      [] kind = "InvalidArgument" -> "invalid argument"
      [] kind = "InvalidCookieDomain" -> "invalid cookie domain"
      [] kind = "InvalidElementCoordinates" -> "invalid element coordinates"
      [] kind = "InvalidElementState" -> "invalid element state"
      [] kind = "InvalidSelector" -> "invalid selector"
      [] kind = "InvalidSessionId" -> "invalid session id"
      [] kind = "JavascriptError" -> "javascript error"
      [] kind = "MoveTargetOutOfBounds" -> "move target out of bounds"
      [] kind = "NoSuchAlert" -> "no such alert"
      [] kind = "NoSuchElement" -> "no such element"
      [] kind = "NoSuchFrame" -> "no such frame"
      [] kind = "NoSuchWindow" -> "no such window"
      [] kind = "ScriptTimeout" -> "timeout"
      [] kind = "SessionNotCreated" -> "session not created"
      [] kind = "StaleElementReference" -> "stale element reference"
      [] kind = "Timeout" -> "timeout"
      [] kind = "UnableToSetCookie" -> "unable to set cookie"
      [] kind = "UnexpectedAlertOpen" -> "unexpected alert open"
      [] kind = "UnknownError" -> "unknown error"
      [] kind = "UnknownMethod" -> "unknown command"
      [] kind = "UnknownPath" -> "unknown command"
      [] kind = "UnsupportedOperation" -> "unsupported operation"

\* ErrorStatus::status_code
status_code(kind) ==
    CASE kind = "ElementNotSelectable" -> "element not selectable"
      [] kind = "ElementNotVisible" -> "element not visible"
      [] kind = "InsecureCertificate" -> "insecure certificate"
      [] kind = "InvalidArgument" -> "invalid argument"
      [] kind = "InvalidCookieDomain" -> "invalid cookie domain"
      [] kind = "InvalidElementCoordinates" -> "invalid element coordinates"
      [] kind = "InvalidElementState" -> "invalid element state"
      [] kind = "InvalidSelector" -> "invalid selector"
      [] kind = "InvalidSessionId" -> "invalid session id"
      [] kind = "JavascriptError" -> "javascript error"
      [] kind = "MoveTargetOutOfBounds" -> "move target out of bounds"
      [] kind = "NoSuchAlert" -> "no such alert"
      [] kind = "NoSuchElement" -> "no such element"
      [] kind = "NoSuchFrame" -> "no such frame"
      [] kind = "NoSuchWindow" -> "no such window"
      [] kind = "ScriptTimeout" -> "script timeout"
      [] kind = "SessionNotCreated" -> "session not created"
      [] kind = "StaleElementReference" -> "stale element reference"
      [] kind = "Timeout" -> "timeout"
      [] kind = "UnableToSetCookie" -> "unable to set cookie"
      [] kind = "UnexpectedAlertOpen" -> "unexpected alert open"
      [] kind = "UnknownError" -> "unknown error"
      [] kind = "UnknownMethod" -> "unknown command"
      [] kind = "UnknownPath" -> "unknown command"
      [] kind = "UnsupportedOperation" -> "unsupported operation"

\* hyper::status::StatusCode, by its number
BadRequest == 400
NotFound == 404
MethodNotAllowed == 405
RequestTimeout == 408
InternalServerError == 500

http_status_unknown_path_405(kind) ==
    CASE kind \in {"InvalidSessionId", "NoSuchElement"} -> NotFound
      [] kind \in {"UnknownMethod", "UnknownPath"} -> MethodNotAllowed
      [] kind \in {"ScriptTimeout", "Timeout"} -> RequestTimeout
      [] kind \in {"JavascriptError", "MoveTargetOutOfBounds",
                   "SessionNotCreated", "UnableToSetCookie",
                   "UnexpectedAlertOpen", "UnknownError",
                   "UnsupportedOperation"} -> InternalServerError
      [] OTHER -> BadRequest

\* ErrorStatus::http_status
http_status(kind) ==
    CASE kind = "ElementNotSelectable" -> BadRequest
      [] kind = "ElementNotVisible" -> BadRequest
      [] kind = "InsecureCertificate" -> BadRequest
      [] kind = "InvalidArgument" -> BadRequest
      [] kind = "InvalidCookieDomain" -> BadRequest
      [] kind = "InvalidElementCoordinates" -> BadRequest
      [] kind = "InvalidElementState" -> BadRequest
      [] kind = "InvalidSelector" -> BadRequest
      [] kind = "InvalidSessionId" -> NotFound
      [] kind = "JavascriptError" -> InternalServerError
      [] kind = "MoveTargetOutOfBounds" -> InternalServerError
      [] kind = "NoSuchAlert" -> BadRequest
      [] kind = "NoSuchElement" -> NotFound
      [] kind = "NoSuchFrame" -> BadRequest
      [] kind = "NoSuchWindow" -> BadRequest
      [] kind = "ScriptTimeout" -> RequestTimeout
      [] kind = "SessionNotCreated" -> InternalServerError
      [] kind = "StaleElementReference" -> BadRequest
      [] kind = "Timeout" -> RequestTimeout
      [] kind = "UnableToSetCookie" -> InternalServerError
      [] kind = "UnexpectedAlertOpen" -> InternalServerError
      [] kind = "UnknownError" -> InternalServerError
      [] kind = "UnknownMethod" -> MethodNotAllowed
      [] kind = "UnknownPath" -> NotFound
      [] kind = "UnsupportedOperation" -> InternalServerError

\* Backtrace::new(): the trace is opaque; it is rendered as one fixed text.
Backtrace_new == "stack backtrace"

\* A constructor that asks for the session to be deleted.
WebDriverError_new_delete_session(error, message) ==
    [error |-> error,
     message |-> message,
     backtrace |-> Backtrace_new,
     delete_session |-> TRUE]

\* WebDriverError::new
WebDriverError_new(error, message) ==
    [error |-> error,
     message |-> message,
     backtrace |-> Backtrace_new,
     delete_session |-> FALSE]

\* WebDriverError::status_code
WebDriverError_status_code(e) == status_code(e.error)

\* WebDriverError::http_status
WebDriverError_http_status(e) == http_status(e.error)

\* A rendering that writes the name of the kind under "error".
WebDriverError_to_json_kind_name(e) ==
    JsonObject([k \in {"error", "message", "stacktrace"} |->
        CASE k = "error" -> JsonString(e.error)
          [] k = "message" -> JsonString(e.message)
          [] k = "stacktrace" -> JsonString(e.backtrace)])

\* ToJson for WebDriverError
WebDriverError_to_json(e) ==
    JsonObject([k \in {"error", "message", "stacktrace"} |->
        CASE k = "error" -> JsonString(WebDriverError_status_code(e))
          [] k = "message" -> JsonString(e.message)
          [] k = "stacktrace" -> JsonString(e.backtrace)])

\* From<ParserError>, From<IoError>, From<DecoderError>,
\* From<FromBase64Error>, From<Box<Error>> for WebDriverError: each wraps
\* the description of the underlying error into UnknownError.
LowerLevelErrors ==
    {"ParserError", "IoError", "DecoderError", "FromBase64Error", "BoxError"}
WebDriverError_from(source, description) ==
    WebDriverError_new("UnknownError", description)

InvalidArgument == "InvalidArgument"
UnknownError == "UnknownError"

\* The try_opt! macro: the value of a Some, or an early return of
\* Err(WebDriverError::new(kind, message)).
try_opt(opt, kind, message) ==
    IF is_some(opt) THEN Ok(unwrap(opt))
    ELSE Err(WebDriverError_new(kind, message))

(***************************************************************************)
(* The value codecs of common.rs the validators call into.                 *)
(***************************************************************************)
\* WebElement::new
WebElement_new(id) == [id |-> id]

\* Date::new and ToJson for Date: a wrapper of an unsigned timestamp.
Date_new(n) == [date |-> n]
Date_to_json(d) == JsonU64(d.date)

\* Nullable<T>: Null, or Value(T).
NullableNull == <<"Null">>
NullableValue(x) == <<"Value", x>>
is_null(n) == n[1] = "Null"

\* Nullable::from_json(value, f): JSON null is the Null state, any other
\* value goes through f, whose failure propagates.  converted stands for
\* f(value); it is looked at only when value is not null.
Nullable_from_json(value, converted) ==
    IF value[1] = "Null" THEN Ok(NullableNull)
    ELSE IF converted.ok THEN Ok(NullableValue(converted.value))
    ELSE converted

\* ToJson for Nullable<T>.  inner stands for the wrapped value's to_json();
\* it is looked at only in the Value state.
Nullable_to_json(n, inner) ==
    IF is_null(n) THEN JsonNull ELSE inner

\* LocatorStrategy, a closed enum with a string codec.
LocatorStrategyNames ==
    [CSSSelector |-> "css selector", LinkText |-> "link text",
     PartialLinkText |-> "partial link text", XPath |-> "xpath"]
LocatorStrategy == DOMAIN LocatorStrategyNames

LocatorStrategy_from_json(value) ==
    LET name == as_string(value)
        hits == IF is_some(name)
                THEN {s \in LocatorStrategy : LocatorStrategyNames[s] = unwrap(name)}
                ELSE {}
    IN  IF hits # {} THEN Ok(CHOOSE s \in hits : TRUE)
        ELSE Err(WebDriverError_new(InvalidArgument, "Unknown locator strategy"))

LocatorStrategy_to_json(s) == JsonString(LocatorStrategyNames[s])

\* FrameId, a closed enum: a frame index, an element handle, or null.
FrameId_from_json(value) ==
    CASE value[1] = "U64" -> Ok(<<"Short", value[2]>>)
      [] value[1] = "Null" -> Ok(<<"Null">>)
      [] value[1] = "String" -> Ok(<<"Element", WebElement_new(value[2])>>)
      [] OTHER -> Err(WebDriverError_new(InvalidArgument,
                                         "frame id has unexpected type"))

FrameId_to_json(id) ==
    CASE id[1] = "Short" -> JsonU64(id[2])
      [] id[1] = "Element" -> JsonString(id[2].id)
      [] id[1] = "Null" -> JsonNull

(***************************************************************************)
(* The parameter validators (impl Parameters for ...) and the encoders of  *)
(* the records (impl ToJson for ...), command.rs.                          *)
(***************************************************************************)
\* The kind a validator reports for a body that is no object: UnknownError
\* in Get, Timeouts, WindowSize, SwitchToWindow, Locator and SwitchToFrame,
\* InvalidArgument in the others.
not_an_object(rec) ==
    CASE rec = "GetParameters" -> UnknownError
      [] rec = "TimeoutsParameters" -> UnknownError
      [] rec = "WindowSizeParameters" -> UnknownError
      [] rec = "SwitchToWindowParameters" -> UnknownError
      [] rec = "LocatorParameters" -> UnknownError
      [] rec = "SwitchToFrameParameters" -> UnknownError
      [] rec = "SendKeysParameters" -> InvalidArgument
      [] rec = "JavascriptCommandParameters" -> InvalidArgument
      [] rec = "GetCookieParameters" -> InvalidArgument
      [] rec = "AddCookieParameters" -> InvalidArgument
      [] rec = "SendAlertTextParameters" -> InvalidArgument
      [] rec = "TakeScreenshotParameters" -> InvalidArgument

\* let data = try_opt!(body.as_object(), <kind>, "Message body was not an object")
body_as_object(rec, body_data) ==
    try_opt(as_object(body_data), not_an_object(rec),
            "Message body was not an object")

\* GetParameters::from_json
GetParameters_from_json(body_data) ==
    LET data == body_as_object("GetParameters", body_data) IN
    IF ~data.ok THEN data ELSE
    LET field == try_opt(get(data.value, "url"), InvalidArgument,
                         "Missing 'url' parameter") IN
    IF ~field.ok THEN field ELSE
    LET url == try_opt(as_string(field.value), InvalidArgument,
                       "'url' not a string") IN
    IF ~url.ok THEN url ELSE
    Ok([url |-> url.value])

GetParameters_to_json(x) ==
    JsonObject([k \in {"url"} |-> JsonString(x.url)])

\* TimeoutsParameters::from_json
TimeoutsParameters_from_json(body_data) ==
    LET data == body_as_object("TimeoutsParameters", body_data) IN
    IF ~data.ok THEN data ELSE
    LET type_field == try_opt(get(data.value, "type"), InvalidArgument,
                              "Missing 'type' parameter") IN
    IF ~type_field.ok THEN type_field ELSE
    LET type_ == try_opt(as_string(type_field.value), InvalidArgument,
                         "'type' not a string") IN
    IF ~type_.ok THEN type_ ELSE
    LET ms_field == try_opt(get(data.value, "ms"), InvalidArgument,
                            "Missing 'ms' parameter") IN
    IF ~ms_field.ok THEN ms_field ELSE
    LET ms == try_opt(as_f64(ms_field.value), InvalidArgument,
                      "'ms' not a float") IN
    IF ~ms.ok THEN ms ELSE
    Ok([type_ |-> type_.value, ms |-> ms.value])

TimeoutsParameters_to_json(x) ==
    JsonObject([k \in {"type", "ms"} |->
        IF k = "type" THEN JsonString(x.type_) ELSE JsonF64(x.ms)])

\* The validator with the two numbers stored under each other's name.
WindowSizeParameters_from_json_swapped(body_data) ==
    LET data == body_as_object("WindowSizeParameters", body_data) IN
    IF ~data.ok THEN data ELSE
    LET height_field == try_opt(get(data.value, "height"), InvalidArgument,
                                "Missing 'height' parameter") IN
    IF ~height_field.ok THEN height_field ELSE
    LET height == try_opt(as_u64(height_field.value), InvalidArgument,
                          "'height' is not a positive integer") IN
    IF ~height.ok THEN height ELSE
    LET width_field == try_opt(get(data.value, "width"), InvalidArgument,
                               "Missing width parameter") IN
    IF ~width_field.ok THEN width_field ELSE
    LET width == try_opt(as_u64(width_field.value), InvalidArgument,
                         "'width' is not a positive integer") IN
    IF ~width.ok THEN width ELSE
    Ok([height |-> width.value, width |-> height.value])

\* WindowSizeParameters::from_json
WindowSizeParameters_from_json(body_data) ==
    LET data == body_as_object("WindowSizeParameters", body_data) IN
    IF ~data.ok THEN data ELSE
    LET height_field == try_opt(get(data.value, "height"), InvalidArgument,
                                "Missing 'height' parameter") IN
    IF ~height_field.ok THEN height_field ELSE
    LET height == try_opt(as_u64(height_field.value), InvalidArgument,
                          "'height' is not a positive integer") IN
    IF ~height.ok THEN height ELSE
    LET width_field == try_opt(get(data.value, "width"), InvalidArgument,
                               "Missing width parameter") IN
    IF ~width_field.ok THEN width_field ELSE
    LET width == try_opt(as_u64(width_field.value), InvalidArgument,
                         "'width' is not a positive integer") IN
    IF ~width.ok THEN width ELSE
    Ok([height |-> height.value, width |-> width.value])

WindowSizeParameters_to_json(x) ==
    JsonObject([k \in {"width", "height"} |->
        IF k = "width" THEN JsonU64(x.width) ELSE JsonU64(x.height)])

\* SwitchToWindowParameters::from_json
SwitchToWindowParameters_from_json(body_data) ==
    LET data == body_as_object("SwitchToWindowParameters", body_data) IN
    IF ~data.ok THEN data ELSE
    LET field == try_opt(get(data.value, "handle"), InvalidArgument,
                         "Missing 'handle' parameter") IN
    IF ~field.ok THEN field ELSE
    LET handle == try_opt(as_string(field.value), InvalidArgument,
                          "'handle' not a string") IN
    IF ~handle.ok THEN handle ELSE
    Ok([handle |-> handle.value])

SwitchToWindowParameters_to_json(x) ==
    JsonObject([k \in {"handle"} |-> JsonString(x.handle)])

\* LocatorParameters::from_json
LocatorParameters_from_json(body_data) ==
    LET data == body_as_object("LocatorParameters", body_data) IN
    IF ~data.ok THEN data ELSE
    LET using_field == try_opt(get(data.value, "using"), InvalidArgument,
                               "Missing 'using' parameter") IN
    IF ~using_field.ok THEN using_field ELSE
    LET using == LocatorStrategy_from_json(using_field.value) IN
    IF ~using.ok THEN using ELSE
    LET value_field == try_opt(get(data.value, "value"), InvalidArgument,
                               "Missing 'value' parameter") IN
    IF ~value_field.ok THEN value_field ELSE
    LET value == try_opt(as_string(value_field.value), InvalidArgument,
                         "Could not convert using to string") IN
    IF ~value.ok THEN value ELSE
    Ok([using |-> using.value, value |-> value.value])

LocatorParameters_to_json(x) ==
    JsonObject([k \in {"using", "value"} |->
        IF k = "using" THEN LocatorStrategy_to_json(x.using)
        ELSE JsonString(x.value)])

\* SwitchToFrameParameters::from_json
SwitchToFrameParameters_from_json(body_data) ==
    LET data == body_as_object("SwitchToFrameParameters", body_data) IN
    IF ~data.ok THEN data ELSE
    LET field == try_opt(get(data.value, "id"), UnknownError,
                         "Missing 'id' parameter") IN
    IF ~field.ok THEN field ELSE
    LET id == FrameId_from_json(field.value) IN
    IF ~id.ok THEN id ELSE
    Ok([id |-> id.value])

SwitchToFrameParameters_to_json(x) ==
    JsonObject([k \in {"id"} |-> FrameId_to_json(x.id)])

\* The closure with a check for the empty string only.
send_keys_char_not_empty(x) ==
    LET str_value == try_opt(as_string(x), InvalidArgument,
                             "Value was not a string") IN
    IF ~str_value.ok THEN str_value ELSE
    IF Len(str_value.value) = 0
    THEN Err(WebDriverError_new(InvalidArgument, "Value was not a string"))
    ELSE Ok(str_value.value)

\* The closure of SendKeysParameters::from_json applied to one element of
\* 'value': a string of exactly one character yields that character.
send_keys_char(x) ==
    LET str_value == try_opt(as_string(x), InvalidArgument,
                             "Value was not a string") IN
    IF ~str_value.ok THEN str_value ELSE
    IF Len(str_value.value) # 1
    THEN Err(WebDriverError_new(InvalidArgument, "Value was not a string"))
    ELSE Ok(str_value.value)

\* value_json.iter().map(..).collect::<Result<Vec<_>, _>>(): the characters
\* in order, or the error of the first element that fails.
RECURSIVE collect_chars(_)
collect_chars(value_json) ==
    IF value_json = <<>> THEN Ok(<<>>) ELSE
    LET first == send_keys_char(Head(value_json)) IN
    IF ~first.ok THEN first ELSE
    LET rest == collect_chars(Tail(value_json)) IN
    IF ~rest.ok THEN rest ELSE
    Ok(<<first.value>> \o rest.value)

\* SendKeysParameters::from_json
SendKeysParameters_from_json(body_data) ==
    LET data == body_as_object("SendKeysParameters", body_data) IN
    IF ~data.ok THEN data ELSE
    LET field == try_opt(get(data.value, "value"), InvalidArgument,
                         "Missing 'value' parameter") IN
    IF ~field.ok THEN field ELSE
    LET value_json == try_opt(as_array(field.value), InvalidArgument,
                              "Could not convert 'value' to array") IN
    IF ~value_json.ok THEN value_json ELSE
    LET value == collect_chars(value_json.value) IN
    IF ~value.ok THEN value ELSE
    Ok([value |-> value.value])

SendKeysParameters_to_json(x) ==
    JsonObject([k \in {"value"} |->
        JsonArray([i \in 1..Len(x.value) |-> JsonString(x.value[i])])])

\* The closures handed to Nullable::from_json.
args_to_array(x) ==
    try_opt(as_array(x), InvalidArgument, "Failed to convert args to Array")
name_to_string(x) ==
    try_opt(as_string(x), InvalidArgument, "Failed to convert name to String")
path_to_string(x) ==
    try_opt(as_string(x), InvalidArgument, "Failed to convert path to String")
domain_to_string(x) ==
    try_opt(as_string(x), InvalidArgument, "Failed to convert domain to String")
expiry_to_date(x) ==
    LET n == try_opt(as_u64(x), InvalidArgument,
                     "Failed to convert expiry to Date") IN
    IF ~n.ok THEN n ELSE Ok(Date_new(n.value))

\* The validator with 'args' optional, null when the key is missing.
JavascriptCommandParameters_from_json_optional_args(body_data) ==
    LET data == body_as_object("JavascriptCommandParameters", body_data) IN
    IF ~data.ok THEN data ELSE
    LET args == IF is_some(get(data.value, "args"))
                THEN Nullable_from_json(unwrap(get(data.value, "args")),
                        args_to_array(unwrap(get(data.value, "args"))))
                ELSE Ok(NullableNull) IN
    IF ~args.ok THEN args ELSE
    LET script_field == try_opt(get(data.value, "script"), InvalidArgument,
                                "Missing script parameter") IN
    IF ~script_field.ok THEN script_field ELSE
    LET script == try_opt(as_string(script_field.value), InvalidArgument,
                          "Failed to convert script to String") IN
    IF ~script.ok THEN script ELSE
    Ok([script |-> script.value, args |-> args.value])

\* JavascriptCommandParameters::from_json
JavascriptCommandParameters_from_json(body_data) ==
    LET data == body_as_object("JavascriptCommandParameters", body_data) IN
    IF ~data.ok THEN data ELSE
    LET args_json == try_opt(get(data.value, "args"), InvalidArgument,
                             "Missing args parameter") IN
    IF ~args_json.ok THEN args_json ELSE
    LET args == Nullable_from_json(args_json.value,
                                   args_to_array(args_json.value)) IN
    IF ~args.ok THEN args ELSE
    LET script_field == try_opt(get(data.value, "script"), InvalidArgument,
                                "Missing script parameter") IN
    IF ~script_field.ok THEN script_field ELSE
    LET script == try_opt(as_string(script_field.value), InvalidArgument,
                          "Failed to convert script to String") IN
    IF ~script.ok THEN script ELSE
    Ok([script |-> script.value, args |-> args.value])

JavascriptCommandParameters_to_json(x) ==
    JsonObject([k \in {"script", "args"} |->
        IF k = "script" THEN JsonString(x.script)
        ELSE Nullable_to_json(x.args, JsonArray(x.args[2]))])

\* GetCookieParameters::from_json
GetCookieParameters_from_json(body_data) ==
    LET data == body_as_object("GetCookieParameters", body_data) IN
    IF ~data.ok THEN data ELSE
    LET name_json == try_opt(get(data.value, "name"), InvalidArgument,
                             "Missing 'name' parameter") IN
    IF ~name_json.ok THEN name_json ELSE
    LET name == Nullable_from_json(name_json.value,
                                   name_to_string(name_json.value)) IN
    IF ~name.ok THEN name ELSE
    Ok([name |-> name.value])

GetCookieParameters_to_json(x) ==
    JsonObject([k \in {"name"} |-> Nullable_to_json(x.name, JsonString(x.name[2]))])

\* An optional nullable field that is required.
optional_nullable_required(data, key, converted) ==
    IF is_some(get(data, key))
    THEN Nullable_from_json(unwrap(get(data, key)), converted)
    ELSE Err(WebDriverError_new(InvalidArgument, "Missing parameter"))

\* match data.get(key) { Some(j) => try!(Nullable::from_json(j, f)),
\*                       None => Nullable::Null }
\* converted stands for f(j); it is looked at only when the key is present.
optional_nullable(data, key, converted) ==
    IF is_some(get(data, key))
    THEN Nullable_from_json(unwrap(get(data, key)), converted)
    ELSE Ok(NullableNull)

\* An optional boolean field that is true when the key is missing.
optional_boolean_default_true(data, key, message) ==
    IF is_some(get(data, key))
    THEN try_opt(as_boolean(unwrap(get(data, key))), InvalidArgument, message)
    ELSE Ok(TRUE)

\* match data.get(key) { Some(x) => try_opt!(x.as_boolean(), ..),
\*                       None => false }
optional_boolean(data, key, message) ==
    IF is_some(get(data, key))
    THEN try_opt(as_boolean(unwrap(get(data, key))), InvalidArgument, message)
    ELSE Ok(FALSE)

\* AddCookieParameters::from_json
AddCookieParameters_from_json(body_data) ==
    LET data == body_as_object("AddCookieParameters", body_data) IN
    IF ~data.ok THEN data ELSE
    LET name_field == try_opt(get(data.value, "name"), InvalidArgument,
                              "Missing 'name' parameter") IN
    IF ~name_field.ok THEN name_field ELSE
    LET name == try_opt(as_string(name_field.value), InvalidArgument,
                        "'name' is not a string") IN
    IF ~name.ok THEN name ELSE
    LET value_field == try_opt(get(data.value, "value"), InvalidArgument,
                               "Missing 'value' parameter") IN
    IF ~value_field.ok THEN value_field ELSE
    LET value == try_opt(as_string(value_field.value), InvalidArgument,
                         "'value' is not a string") IN
    IF ~value.ok THEN value ELSE
    LET path == optional_nullable(data.value, "path",
        path_to_string(unwrap(get(data.value, "path")))) IN
    IF ~path.ok THEN path ELSE
    LET domain == optional_nullable(data.value, "domain",
        domain_to_string(unwrap(get(data.value, "domain")))) IN
    IF ~domain.ok THEN domain ELSE
    LET expiry == optional_nullable(data.value, "expiry",
        expiry_to_date(unwrap(get(data.value, "expiry")))) IN
    IF ~expiry.ok THEN expiry ELSE
    LET max_age == optional_nullable(data.value, "maxAge",
        expiry_to_date(unwrap(get(data.value, "maxAge")))) IN
    IF ~max_age.ok THEN max_age ELSE
    LET secure == optional_boolean(data.value, "secure",
                                   "Failed to convert secure to boolean") IN
    IF ~secure.ok THEN secure ELSE
    LET http_only == optional_boolean(data.value, "httpOnly",
                                      "Failed to convert httpOnly to boolean") IN
    IF ~http_only.ok THEN http_only ELSE
    Ok([name |-> name.value, value |-> value.value, path |-> path.value,
        domain |-> domain.value, expiry |-> expiry.value,
        maxAge |-> max_age.value, secure |-> secure.value,
        httpOnly |-> http_only.value])

AddCookieFields ==
    {"name", "value", "path", "domain", "expiry", "maxAge", "secure", "httpOnly"}

AddCookieParameters_to_json_http_only(x) ==
    JsonObject([k \in AddCookieFields |->
        CASE k = "name" -> JsonString(x.name)
          [] k = "value" -> JsonString(x.value)
          [] k = "path" -> Nullable_to_json(x.path, JsonString(x.path[2]))
          [] k = "domain" -> Nullable_to_json(x.domain, JsonString(x.domain[2]))
          [] k = "expiry" -> Nullable_to_json(x.expiry, Date_to_json(x.expiry[2]))
          [] k = "maxAge" -> Nullable_to_json(x.maxAge, Date_to_json(x.maxAge[2]))
          [] k = "secure" -> JsonBoolean(x.httpOnly)
          [] k = "httpOnly" -> JsonBoolean(x.httpOnly)])

\* ToJson for AddCookieParameters
AddCookieParameters_to_json(x) ==
    JsonObject([k \in AddCookieFields |->
        CASE k = "name" -> JsonString(x.name)
          [] k = "value" -> JsonString(x.value)
          [] k = "path" -> Nullable_to_json(x.path, JsonString(x.path[2]))
          [] k = "domain" -> Nullable_to_json(x.domain, JsonString(x.domain[2]))
          [] k = "expiry" -> Nullable_to_json(x.expiry, Date_to_json(x.expiry[2]))
          [] k = "maxAge" -> Nullable_to_json(x.maxAge, Date_to_json(x.maxAge[2]))
          [] k = "secure" -> JsonBoolean(x.secure)
          [] k = "httpOnly" -> JsonBoolean(x.httpOnly)])

\* SendAlertTextParameters::from_json
SendAlertTextParameters_from_json(body_data) ==
    LET data == body_as_object("SendAlertTextParameters", body_data) IN
    IF ~data.ok THEN data ELSE
    LET field == try_opt(get(data.value, "keysToSend"), InvalidArgument,
                         "Missing 'handle' parameter") IN
    IF ~field.ok THEN field ELSE
    LET keys == try_opt(as_string(field.value), InvalidArgument,
                        "'keysToSend' not a string") IN
    IF ~keys.ok THEN keys ELSE
    Ok([keysToSend |-> keys.value])

SendAlertTextParameters_to_json(x) ==
    JsonObject([k \in {"keysToSend"} |-> JsonString(x.keysToSend)])

\* WebElement::from_json: an element handle is read from its string id.
WebElement_from_json(x) ==
    LET id == try_opt(as_string(x), InvalidArgument,
                      "Could not convert element to string") IN
    IF ~id.ok THEN id ELSE Ok(WebElement_new(id.value))

WebElement_to_json(e) == JsonString(e.id)

\* TakeScreenshotParameters::from_json
TakeScreenshotParameters_from_json(body_data) ==
    LET data == body_as_object("TakeScreenshotParameters", body_data) IN
    IF ~data.ok THEN data ELSE
    LET element == optional_nullable(data.value, "element",
        WebElement_from_json(unwrap(get(data.value, "element")))) IN
    IF ~element.ok THEN element ELSE
    Ok([element |-> element.value])

TakeScreenshotParameters_to_json(x) ==
    JsonObject([k \in {"element"} |->
        Nullable_to_json(x.element, WebElement_to_json(x.element[2]))])

\* The implementors of the Parameters trait.
Records ==
    {"GetParameters", "TimeoutsParameters", "WindowSizeParameters",
     "SwitchToWindowParameters", "LocatorParameters",
     "SwitchToFrameParameters", "SendKeysParameters",
     "JavascriptCommandParameters", "GetCookieParameters",
     "AddCookieParameters", "SendAlertTextParameters",
     "TakeScreenshotParameters"}

\* Parameters::from_json, dispatched on the record type.
Parameters_from_json(rec, body_data) ==
    CASE rec = "GetParameters" -> GetParameters_from_json(body_data)
      [] rec = "TimeoutsParameters" -> TimeoutsParameters_from_json(body_data)
      [] rec = "WindowSizeParameters" -> WindowSizeParameters_from_json(body_data)
      [] rec = "SwitchToWindowParameters" ->
            SwitchToWindowParameters_from_json(body_data)
      [] rec = "LocatorParameters" -> LocatorParameters_from_json(body_data)
      [] rec = "SwitchToFrameParameters" ->
            SwitchToFrameParameters_from_json(body_data)
      [] rec = "SendKeysParameters" -> SendKeysParameters_from_json(body_data)
      [] rec = "JavascriptCommandParameters" ->
            JavascriptCommandParameters_from_json(body_data)
      [] rec = "GetCookieParameters" -> GetCookieParameters_from_json(body_data)
      [] rec = "AddCookieParameters" -> AddCookieParameters_from_json(body_data)
      [] rec = "SendAlertTextParameters" ->
            SendAlertTextParameters_from_json(body_data)
      [] rec = "TakeScreenshotParameters" ->
            TakeScreenshotParameters_from_json(body_data)

\* ToJson::to_json of a record, dispatched on the record type.
Parameters_to_json(rec, x) ==
    CASE rec = "GetParameters" -> GetParameters_to_json(x)
      [] rec = "TimeoutsParameters" -> TimeoutsParameters_to_json(x)
      [] rec = "WindowSizeParameters" -> WindowSizeParameters_to_json(x)
      [] rec = "SwitchToWindowParameters" -> SwitchToWindowParameters_to_json(x)
      [] rec = "LocatorParameters" -> LocatorParameters_to_json(x)
      [] rec = "SwitchToFrameParameters" -> SwitchToFrameParameters_to_json(x)
      [] rec = "SendKeysParameters" -> SendKeysParameters_to_json(x)
      [] rec = "JavascriptCommandParameters" ->
            JavascriptCommandParameters_to_json(x)
      [] rec = "GetCookieParameters" -> GetCookieParameters_to_json(x)
      [] rec = "AddCookieParameters" -> AddCookieParameters_to_json(x)
      [] rec = "SendAlertTextParameters" -> SendAlertTextParameters_to_json(x)
      [] rec = "TakeScreenshotParameters" -> TakeScreenshotParameters_to_json(x)

(***************************************************************************)
(* The request decoder, WebDriverMessage::from_http (command.rs).          *)
(***************************************************************************)
\* httpapi::Route, as from_http matches on it.
NoPayloadRoutes ==
    {"NewSession", "DeleteSession", "GetCurrentUrl", "GoBack", "GoForward",
     "Refresh", "GetTitle", "GetWindowHandle", "GetWindowHandles", "Close",
     "GetWindowSize", "MaximizeWindow", "SwitchToParentFrame", "GetCookies",
     "DeleteCookies", "DismissAlert", "AcceptAlert", "GetAlertText",
     "TakeScreenshot"}
ElementRoutes ==
    {"IsDisplayed", "IsSelected", "GetElementText", "GetElementTagName",
     "GetElementRect", "IsEnabled", "ElementClick", "ElementTap",
     "ElementClear"}
ElementNameRoutes == {"GetElementAttribute", "GetCSSValue"}
NameRoutes == {"GetCookie", "DeleteCookie"}
ElementRecordRoutes ==
    {"FindElementElement", "FindElementElements", "ElementSendKeys"}
RecordRoutes ==
    {"Get", "SetTimeouts", "SetWindowSize", "SwitchToWindow", "SwitchToFrame",
     "FindElement", "FindElements", "ExecuteScript", "ExecuteAsyncScript",
     "AddCookie", "SendAlertText"}
Route ==
    NoPayloadRoutes \cup ElementRoutes \cup ElementNameRoutes \cup NameRoutes
        \cup ElementRecordRoutes \cup RecordRoutes

\* The record type a route's arm of from_http validates the body into.
RouteRecord(match_type) ==
    CASE match_type = "Get" -> "GetParameters"
      [] match_type = "SetTimeouts" -> "TimeoutsParameters"
      [] match_type = "SetWindowSize" -> "WindowSizeParameters"
      [] match_type = "SwitchToWindow" -> "SwitchToWindowParameters"
      [] match_type = "SwitchToFrame" -> "SwitchToFrameParameters"
      [] match_type \in {"FindElement", "FindElements", "FindElementElement",
                         "FindElementElements"} -> "LocatorParameters"
      [] match_type = "ElementSendKeys" -> "SendKeysParameters"
      [] match_type \in {"ExecuteScript", "ExecuteAsyncScript"} ->
            "JavascriptCommandParameters"
      [] match_type = "AddCookie" -> "AddCookieParameters"
      [] match_type = "SendAlertText" -> "SendAlertTextParameters"

\* The raw body is a text: one that is no JSON, or the text of a JSON value.
MalformedBody(text) == <<"text", text>>
JsonBody(j) == <<"json", j>>

\* Json::from_str
Json_from_str(raw) ==
    IF raw[1] = "json" THEN Ok(raw[2]) ELSE [ok |-> FALSE, error |-> "SyntaxError"]

\* regex::Captures::name
Captures_name(captures, name) ==
    IF name \in DOMAIN captures THEN Some(captures[name]) ELSE None

\* A session id that is the empty string when nothing was captured.
get_session_id_default(captures) ==
    IF "sessionId" \in DOMAIN captures
    THEN Some(captures["sessionId"]) ELSE Some("")

\* WebDriverMessage::get_session_id
get_session_id(captures) == Captures_name(captures, "sessionId")

\* WebDriverMessage::new
WebDriverMessage_new(session_id, command) ==
    [session_id |-> session_id, command |-> command]

\* A value of WebDriverCommand: the variant and its payload slots.
Command(variant, args) == [variant |-> variant, args |-> args]

request_body_no_object_check(raw, body_required) ==
    IF body_required
    THEN LET x == Json_from_str(raw) IN
         IF x.ok THEN Ok(x.value)
         ELSE Err(WebDriverError_new(InvalidArgument,
                  "Failed to decode request body as json: " \o raw[2]))
    ELSE Ok(JsonNull)

request_body_always_parsed(raw, body_required) ==
    LET x == Json_from_str(raw) IN
    IF x.ok
    THEN IF x.value[1] = "Object" THEN Ok(IF body_required THEN x.value ELSE JsonNull)
         ELSE Err(WebDriverError_new(InvalidArgument,
                                     "Body was not a json object"))
    ELSE Err(WebDriverError_new(InvalidArgument,
             "Failed to decode request body as json: " \o raw[2]))

\* let body_data = if requires_body { .. } else { Json::Null };
request_body(raw, body_required) ==
    IF body_required
    THEN LET x == Json_from_str(raw) IN
         IF x.ok
         THEN IF x.value[1] = "Object" THEN Ok(x.value)
              ELSE Err(WebDriverError_new(InvalidArgument,
                                          "Body was not a json object"))
         ELSE Err(WebDriverError_new(InvalidArgument,
                  "Failed to decode request body as json: " \o raw[2]))
    ELSE Ok(JsonNull)

path_element_default(captures) ==
    IF is_some(Captures_name(captures, "elementId"))
    THEN Ok(WebElement_new(unwrap(Captures_name(captures, "elementId"))))
    ELSE Ok(WebElement_new(""))

\* let element_id = try_opt!(params.name("elementId"), ..);
\* let element = WebElement::new(element_id.to_string());
path_element(captures) ==
    LET element_id == try_opt(Captures_name(captures, "elementId"),
                              InvalidArgument, "Missing elementId parameter") IN
    IF ~element_id.ok THEN element_id ELSE Ok(WebElement_new(element_id.value))

\* try_opt!(params.name(<name>), .., "Missing <name> parameter").to_string()
path_string(captures, name) ==
    try_opt(Captures_name(captures, name), InvalidArgument,
            "Missing " \o name \o " parameter")

\* An arm that validates the body: Get, SetTimeouts, .., SendAlertText.
record_arm(match_type, body_data) ==
    LET parameters == Parameters_from_json(RouteRecord(match_type), body_data) IN
    IF ~parameters.ok THEN parameters ELSE
    Ok(Command(match_type, <<parameters.value>>))

\* An arm that reads the element: IsDisplayed, .., ElementClear.
element_arm(match_type, captures) ==
    LET element == path_element(captures) IN
    IF ~element.ok THEN element ELSE
    Ok(Command(match_type, <<element.value>>))

\* The arms of GetElementAttribute (name) and GetCSSValue (propertyName).
element_name_arm(match_type, captures) ==
    LET element == path_element(captures) IN
    IF ~element.ok THEN element ELSE
    LET attr == path_string(captures,
                    IF match_type = "GetElementAttribute" THEN "name"
                    ELSE "propertyName") IN
    IF ~attr.ok THEN attr ELSE
    Ok(Command(match_type, <<element.value, attr.value>>))

\* The arms of GetCookie and DeleteCookie.
name_arm(match_type, captures) ==
    LET name == path_string(captures, "name") IN
    IF ~name.ok THEN name ELSE
    Ok(Command(match_type, <<name.value>>))

\* A two-slot arm that validates the body before it reads the element.
element_record_arm_validator_first(match_type, captures, body_data) ==
    LET parameters == Parameters_from_json(RouteRecord(match_type), body_data) IN
    IF ~parameters.ok THEN parameters ELSE
    LET element == path_element(captures) IN
    IF ~element.ok THEN element ELSE
    Ok(Command(match_type, <<element.value, parameters.value>>))

\* The arms of FindElementElement, FindElementElements and ElementSendKeys.
element_record_arm(match_type, captures, body_data) ==
    LET element == path_element(captures) IN
    IF ~element.ok THEN element ELSE
    LET parameters == Parameters_from_json(RouteRecord(match_type), body_data) IN
    IF ~parameters.ok THEN parameters ELSE
    Ok(Command(match_type, <<element.value, parameters.value>>))

\* WebDriverMessage::from_http
from_http(match_type, captures, raw, body_required) ==
    LET session_id == get_session_id(captures)
        body_data == request_body(raw, body_required) IN
    IF ~body_data.ok THEN body_data ELSE
    LET command ==
        CASE match_type \in NoPayloadRoutes -> Ok(Command(match_type, <<>>))
          [] match_type \in RecordRoutes ->
                record_arm(match_type, body_data.value)
          [] match_type \in ElementRecordRoutes ->
                element_record_arm(match_type, captures, body_data.value)
          [] match_type \in ElementRoutes -> element_arm(match_type, captures)
          [] match_type \in ElementNameRoutes ->
                element_name_arm(match_type, captures)
          [] match_type \in NameRoutes -> name_arm(match_type, captures) IN
    IF ~command.ok THEN command ELSE
    Ok(WebDriverMessage_new(session_id, command.value))

(***************************************************************************)
(* The command encoder, ToJson for WebDriverMessage (command.rs).          *)
(***************************************************************************)
\* The encoder with the element handle of an element-scoped command written
\* under "parameters".
WebDriverMessage_to_json_with_element(msg) ==
    LET command == msg.command
        parameters ==
            CASE command.variant \in
                    NoPayloadRoutes \cup ElementNameRoutes \cup NameRoutes -> None
              [] command.variant \in ElementRoutes ->
                    Some(WebElement_to_json(command.args[1]))
              [] command.variant \in RecordRoutes ->
                    Some(Parameters_to_json(RouteRecord(command.variant),
                                            command.args[1]))
              [] command.variant \in ElementRecordRoutes ->
                    Some(Parameters_to_json(RouteRecord(command.variant),
                                            command.args[2]))
        data == IF is_some(parameters)
                THEN [k \in {"parameters"} |-> unwrap(parameters)]
                ELSE <<>>
    IN  JsonObject(data)

WebDriverMessage_to_json(msg) ==
    LET command == msg.command
        parameters ==
            CASE command.variant \in
                    NoPayloadRoutes \cup ElementRoutes \cup ElementNameRoutes
                        \cup NameRoutes -> None
              [] command.variant \in RecordRoutes ->
                    Some(Parameters_to_json(RouteRecord(command.variant),
                                            command.args[1]))
              [] command.variant \in ElementRecordRoutes ->
                    Some(Parameters_to_json(RouteRecord(command.variant),
                                            command.args[2]))
        data == IF is_some(parameters)
                THEN [k \in {"parameters"} |-> unwrap(parameters)]
                ELSE <<>>
    IN  JsonObject(data)

(***************************************************************************)
(* The inputs.                                                             *)
(***************************************************************************)
\* The path captures a router can hand over: any subset of the four names.
CaptureText ==
    [sessionId |-> "session-1", elementId |-> "element-1",
     name |-> "href", propertyName |-> "color"]
Captures ==
    {[n \in names |-> CaptureText[n]] : names \in SUBSET DOMAIN CaptureText}

\* Arrays of at most MaxArrayLen elements: single characters, longer and
\* empty strings, and an element that is no string.
ArrayElements ==
    {JsonString("a"), JsonString("b"), JsonString("ab"), JsonString(""),
     JsonU64(0)}
Arrays ==
    UNION {{JsonArray(a) : a \in [1..n -> ArrayElements]} : n \in 0..MaxArrayLen}

\* One value of every JSON type.
OneOfEach ==
    {JsonNull, JsonBoolean(TRUE), JsonI64(-1), JsonF64(3), JsonString("a"),
     JsonArray(<<>>), JsonObject(<<>>)} \cup {JsonU64(n) : n \in 0..MaxNum}

\* The fields a validator reads.
Fields(rec) ==
    CASE rec = "GetParameters" -> {"url"}
      [] rec = "TimeoutsParameters" -> {"type", "ms"}
      [] rec = "WindowSizeParameters" -> {"width", "height"}
      [] rec = "SwitchToWindowParameters" -> {"handle"}
      [] rec = "LocatorParameters" -> {"using", "value"}
      [] rec = "SwitchToFrameParameters" -> {"id"}
      [] rec = "SendKeysParameters" -> {"value"}
      [] rec = "JavascriptCommandParameters" -> {"script", "args"}
      [] rec = "GetCookieParameters" -> {"name"}
      [] rec = "AddCookieParameters" -> AddCookieFields
      [] rec = "SendAlertTextParameters" -> {"keysToSend"}
      [] rec = "TakeScreenshotParameters" -> {"element"}

\* The values tried for a field: of the type the validator wants, and not.
FieldValues(rec, key) ==
    CASE rec = "AddCookieParameters" /\ key \in {"name", "value"} ->
            {JsonString("a"), JsonString("b"), JsonNull}
      [] rec = "AddCookieParameters" /\ key \in {"path", "domain"} ->
            {JsonString("a"), JsonNull, JsonU64(0)}
      [] rec = "AddCookieParameters" /\ key \in {"expiry", "maxAge"} ->
            {JsonU64(n) : n \in 0..MaxNum}
                \cup {JsonNull, JsonString("a"), JsonI64(-1), JsonF64(3)}
      [] rec = "AddCookieParameters" /\ key \in {"secure", "httpOnly"} ->
            {JsonBoolean(TRUE), JsonBoolean(FALSE), JsonNull}
      [] rec = "LocatorParameters" /\ key = "using" ->
            OneOfEach \cup {JsonString(LocatorStrategyNames[n]) : n \in LocatorStrategy}
      [] rec = "GetParameters" -> OneOfEach \cup {JsonString("")}
      [] rec \in {"SendKeysParameters", "JavascriptCommandParameters"}
            /\ key \in {"value", "args"} -> OneOfEach \cup Arrays
      [] key = "extra" -> {JsonU64(0)}
      [] OTHER -> OneOfEach

\* A body object that passes the validator with every field present, and one
\* with only the fields the validator requires.
CompleteBody(rec) ==
    CASE rec = "GetParameters" -> [k \in {"url"} |-> JsonString("a")]
      [] rec = "TimeoutsParameters" ->
            [k \in {"type", "ms"} |->
                IF k = "type" THEN JsonString("a") ELSE JsonF64(3)]
      [] rec = "WindowSizeParameters" ->
            [k \in {"width", "height"} |->
                IF k = "width" THEN JsonU64(1) ELSE JsonU64(0)]
      [] rec = "SwitchToWindowParameters" -> [k \in {"handle"} |-> JsonString("a")]
      [] rec = "LocatorParameters" ->
            [k \in {"using", "value"} |->
                IF k = "using" THEN JsonString("xpath") ELSE JsonString("a")]
      [] rec = "SwitchToFrameParameters" -> [k \in {"id"} |-> JsonU64(0)]
      [] rec = "SendKeysParameters" ->
            [k \in {"value"} |-> JsonArray(<<JsonString("a")>>)]
      [] rec = "JavascriptCommandParameters" ->
            [k \in {"script", "args"} |->
                IF k = "script" THEN JsonString("a") ELSE JsonArray(<<>>)]
      [] rec = "GetCookieParameters" -> [k \in {"name"} |-> JsonString("a")]
      [] rec = "AddCookieParameters" ->
            [k \in AddCookieFields |->
                CASE k \in {"name", "path", "domain"} -> JsonString("a")
                  [] k = "value" -> JsonString("b")
                  [] k \in {"expiry", "maxAge"} -> JsonU64(1)
                  [] k \in {"secure", "httpOnly"} -> JsonBoolean(TRUE)]
      [] rec = "SendAlertTextParameters" ->
            [k \in {"keysToSend"} |-> JsonString("a")]
      [] rec = "TakeScreenshotParameters" ->
            [k \in {"element"} |-> JsonString("a")]

RequiredFields(rec) ==
    CASE rec = "AddCookieParameters" -> {"name", "value"}
      [] rec = "TakeScreenshotParameters" -> {}
      [] OTHER -> Fields(rec)

MinimalBody(rec) == [k \in RequiredFields(rec) |-> CompleteBody(rec)[k]]

\* A body object differs from one of the two in at most MaxEdits keys, each
\* removed or set to any of the values tried for it; "extra" is a key no
\* validator reads.
MaxEdits == 2
Absent == <<"absent">>

Edited(base, edit) ==
    LET at(k) == IF k \in DOMAIN edit THEN edit[k] ELSE base[k]
        keys == {k \in DOMAIN base \cup DOMAIN edit : at(k) # Absent}
    IN  [k \in keys |-> at(k)]

\* The edits of a set of keys: every key removed or set to a value tried for it.
RECURSIVE EditsOver(_, _)
EditsOver(rec, keys) ==
    IF keys = {} THEN {<<>>}
    ELSE LET k == CHOOSE x \in keys : TRUE
         IN  {e @@ (k :> v) : e \in EditsOver(rec, keys \ {k}),
                              v \in FieldValues(rec, k) \cup {Absent}}

Edits(rec) ==
    UNION {EditsOver(rec, keys) :
            keys \in {K \in SUBSET (Fields(rec) \cup {"extra"}) :
                        Cardinality(K) <= MaxEdits}}

ObjectsOf ==
    [rec \in Records |->
        {Edited(base, e) : base \in {CompleteBody(rec), MinimalBody(rec)},
                           e \in Edits(rec)}]

\* The JSON values handed to a validator: objects, and one value of every
\* other type.
JsonValues(rec) ==
    {JsonObject(m) : m \in ObjectsOf[rec]} \cup (OneOfEach \ {JsonObject(<<>>)})

\* The raw bodies of a request: texts that are no JSON, and JSON texts.
RawBodiesOf ==
    [r \in Route |->
        {MalformedBody(""), MalformedBody("{")}
            \cup {JsonBody(j) : j \in
                    IF r \in RecordRoutes \cup ElementRecordRoutes
                    THEN JsonValues(RouteRecord(r))
                    ELSE OneOfEach \cup {JsonObject([k \in {"extra"} |-> JsonU64(0)])}}]

(***************************************************************************)
(* Spec: one request through the decoder, then through the encoder or,     *)
(* when decoding failed, through the rendering of the error.               *)
(***************************************************************************)
Idle == None

Init ==
    /\ pc = "request"
    /\ route \in Route
    /\ params \in Captures
    /\ body \in RawBodiesOf[route]
    /\ requires_body \in BOOLEAN
    /\ result = None
    /\ encoded = None
    /\ record = Idle /\ json = Idle /\ err = Idle /\ rendered = Idle

\* The server decodes the request.
Decode ==
    /\ pc = "request"
    /\ result' = Some(from_http(route, params, body, requires_body))
    /\ pc' = "decoded"
    /\ UNCHANGED <<route, params, body, requires_body, encoded,
                   record, json, err, rendered>>

\* The returned message is encoded.
Encode ==
    /\ pc = "decoded"
    /\ unwrap(result).ok
    /\ encoded' = Some(WebDriverMessage_to_json(unwrap(result).value))
    /\ pc' = "encoded"
    /\ UNCHANGED <<route, params, body, requires_body, result,
                   record, json, err, rendered>>

\* The error of a failed decode is rendered for the response.
Report ==
    /\ pc = "decoded"
    /\ ~unwrap(result).ok
    /\ encoded' = Some(WebDriverError_to_json(unwrap(result).error))
    /\ pc' = "reported"
    /\ UNCHANGED <<route, params, body, requires_body, result,
                   record, json, err, rendered>>

Next == Decode \/ Encode \/ Report

Spec == Init /\ [][Next]_vars

(***************************************************************************)
(* SpecParams: one validator on one JSON value, then the record encoded.   *)
(***************************************************************************)
InitParams ==
    /\ pc = "body"
    /\ record \in Records
    /\ json \in JsonValues(record)
    /\ result = None
    /\ encoded = None
    /\ route = Idle /\ params = Idle /\ body = Idle /\ requires_body = Idle
    /\ err = Idle /\ rendered = Idle

\* Parameters::from_json is called on the value.
Validate ==
    /\ pc = "body"
    /\ result' = Some(Parameters_from_json(record, json))
    /\ pc' = "validated"
    /\ UNCHANGED <<route, params, body, requires_body, encoded,
                   record, json, err, rendered>>

\* The record is encoded.
EncodeRecord ==
    /\ pc = "validated"
    /\ unwrap(result).ok
    /\ encoded' = Some(Parameters_to_json(record, unwrap(result).value))
    /\ pc' = "record-encoded"
    /\ UNCHANGED <<route, params, body, requires_body, result,
                   record, json, err, rendered>>

NextParams == Validate \/ EncodeRecord

SpecParams == InitParams /\ [][NextParams]_vars

(***************************************************************************)
(* SpecErr: an error is constructed, by hand, from a lower-level error or  *)
(* by a failing decode, then asked for its wire string, its HTTP status    *)
(* and its JSON rendering, in any order.                                   *)
(***************************************************************************)
Messages == {"", "Missing elementId parameter", "no such frame"}

Descriptions == {"EOF while parsing a value", "broken pipe"}

NotRendered == [status_code |-> None, http_status |-> None, json |-> None]

InitErr ==
    /\ pc = "raise"
    /\ err = None
    /\ rendered = NotRendered
    /\ route = Idle /\ params = Idle /\ body = Idle /\ requires_body = Idle
    /\ result = Idle /\ encoded = Idle /\ record = Idle /\ json = Idle

\* WebDriverError::new(kind, message)
New ==
    /\ pc = "raise"
    /\ \E kind \in ErrorStatus, message \in Messages :
            err' = Some(WebDriverError_new(kind, message))
    /\ pc' = "raised"
    /\ UNCHANGED <<route, params, body, requires_body, result, encoded,
                   record, json, rendered>>

\* WebDriverError::from(lower-level error)
From ==
    /\ pc = "raise"
    /\ \E source \in LowerLevelErrors, description \in Descriptions :
            err' = Some(WebDriverError_from(source, description))
    /\ pc' = "raised"
    /\ UNCHANGED <<route, params, body, requires_body, result, encoded,
                   record, json, rendered>>

\* A request fails to decode: the error is the one from_http returns.
DecodeFailure ==
    /\ pc = "raise"
    /\ \E match_type \in Route, captures \in Captures, body_required \in BOOLEAN :
        \E raw \in RawBodiesOf[match_type] :
            LET decoded == from_http(match_type, captures, raw, body_required)
            IN  ~decoded.ok /\ err' = Some(decoded.error)
    /\ pc' = "raised"
    /\ UNCHANGED <<route, params, body, requires_body, result, encoded,
                   record, json, rendered>>

\* A validator rejects a value: the error is the one Parameters::from_json
\* returns.
ValidateFailure ==
    /\ pc = "raise"
    /\ \E rec \in Records :
        \E body_data \in JsonValues(rec) :
            LET validated == Parameters_from_json(rec, body_data)
            IN  ~validated.ok /\ err' = Some(validated.error)
    /\ pc' = "raised"
    /\ UNCHANGED <<route, params, body, requires_body, result, encoded,
                   record, json, rendered>>

\* error.status_code()
StatusCode ==
    /\ pc = "raised"
    /\ rendered.status_code = None
    /\ rendered' = [rendered EXCEPT
                        !.status_code = Some(WebDriverError_status_code(unwrap(err)))]
    /\ UNCHANGED <<pc, route, params, body, requires_body, result, encoded,
                   record, json, err>>

\* error.http_status()
HttpStatus ==
    /\ pc = "raised"
    /\ rendered.http_status = None
    /\ rendered' = [rendered EXCEPT
                        !.http_status = Some(WebDriverError_http_status(unwrap(err)))]
    /\ UNCHANGED <<pc, route, params, body, requires_body, result, encoded,
                   record, json, err>>

\* error.to_json()
ToJson ==
    /\ pc = "raised"
    /\ rendered.json = None
    /\ rendered' = [rendered EXCEPT
                        !.json = Some(WebDriverError_to_json(unwrap(err)))]
    /\ UNCHANGED <<pc, route, params, body, requires_body, result, encoded,
                   record, json, err>>

NextErr ==
    New \/ From \/ DecodeFailure \/ ValidateFailure
        \/ StatusCode \/ HttpStatus \/ ToJson

SpecErr == InitErr /\ [][NextErr]_vars

(***************************************************************************)
(* Properties of the decoder (Spec).                                       *)
(***************************************************************************)
Decoded == pc \in {"decoded", "encoded", "reported"}
returned == unwrap(result)
Fails(kind) == ~returned.ok /\ returned.error.error = kind

IsJsonObject(raw) == raw[1] = "json" /\ raw[2][1] = "Object"

\* C1: with requires_body = true, a body that is no JSON, or JSON that is no
\* object, makes from_http fail with InvalidArgument on every route, those
\* without a payload included, and for every set of captures.
C1_BodyGate ==
    (Decoded /\ requires_body /\ ~IsJsonObject(body)) => Fails("InvalidArgument")

C1_Witness ==
    /\ Decoded /\ requires_body
    /\ route = "NewSession"
    /\ body = JsonBody(JsonArray(<<>>))
    /\ Fails("InvalidArgument")

\* C2: every error from_http returns has kind InvalidArgument.
C2_AllInvalidArgument ==
    (Decoded /\ ~returned.ok) => returned.error.error = "InvalidArgument"

\* The routes of C5, by the capture their arm reads.
C5_ElementScoped ==
    {"FindElementElement", "FindElementElements", "IsDisplayed", "IsSelected",
     "GetElementAttribute", "GetCSSValue", "GetElementText",
     "GetElementTagName", "GetElementRect", "IsEnabled", "ElementClick",
     "ElementTap", "ElementClear", "ElementSendKeys"}
C5_TwoSlot == {"FindElementElement", "FindElementElements", "ElementSendKeys"}
C5_Missing ==
    \/ route \in C5_ElementScoped /\ "elementId" \notin DOMAIN params
    \/ route \in {"GetElementAttribute", "GetCookie", "DeleteCookie"}
        /\ "name" \notin DOMAIN params
    \/ route = "GetCSSValue" /\ "propertyName" \notin DOMAIN params

\* C5: a route returned without the capture it needs fails with
\* InvalidArgument, whatever the body; a two-slot command exists only when
\* the element was captured and the body passed the route's validator, and
\* it carries that element and that record.
C5_MissingCapture ==
    /\ (Decoded /\ C5_Missing) => Fails("InvalidArgument")
    /\ (Decoded /\ route \in C5_TwoSlot /\ returned.ok) =>
            /\ "elementId" \in DOMAIN params
            /\ requires_body /\ IsJsonObject(body)
            /\ LET parameters == Parameters_from_json(RouteRecord(route), body[2])
               IN  /\ parameters.ok
                   /\ returned.value.command.args =
                        <<WebElement_new(params["elementId"]), parameters.value>>

C5_Witness ==
    /\ Decoded /\ route = "FindElementElement"
    /\ "elementId" \notin DOMAIN params
    /\ requires_body /\ IsJsonObject(body)
    /\ Parameters_from_json("LocatorParameters", body[2]).ok
    /\ Fails("InvalidArgument")

C6_NoPayload ==
    {"NewSession", "DeleteSession", "GetCurrentUrl", "GoBack", "GoForward",
     "Refresh", "GetTitle", "GetWindowHandle", "GetWindowHandles", "Close",
     "GetWindowSize", "MaximizeWindow", "SwitchToParentFrame", "GetCookies",
     "DeleteCookies", "DismissAlert", "AcceptAlert", "GetAlertText",
     "TakeScreenshot"}

\* C6: with requires_body = false the result is the one of the same request
\* with an empty body, whatever the body is, and on a route without payload
\* it is the route's zero-argument command.
C6_BodyNotRead ==
    (Decoded /\ ~requires_body) =>
        /\ returned = from_http(route, params, MalformedBody(""), FALSE)
        /\ route \in C6_NoPayload =>
                /\ returned.ok
                /\ returned.value.command = Command(route, <<>>)

C6_Witness ==
    /\ Decoded /\ ~requires_body
    /\ route = "GetTitle"
    /\ body = MalformedBody("{")
    /\ returned.ok /\ returned.value.command = Command("GetTitle", <<>>)

\* The parameters of the encoded message and the object of the request body.
C10_Parameters == unwrap(encoded)[2]["parameters"][2]
C10_Body == body[2][2]
C10_RecordRoutes ==
    {"Get", "SetTimeouts", "SetWindowSize", "SwitchToWindow", "SwitchToFrame",
     "FindElement", "FindElements", "FindElementElement",
     "FindElementElements", "ElementSendKeys", "ExecuteScript",
     "ExecuteAsyncScript", "AddCookie", "SendAlertText"}
\* C10 as claimed: the parameters of the encoded message are the request
\* body, key for key and value for value.
C10_RoundTrip ==
    (pc = "encoded" /\ route \in C10_RecordRoutes) => C10_Parameters = C10_Body

\* C10 as amended: the parameters have exactly the fields of the record, so
\* that keys of the body that are no field of the record are dropped; a field
\* the body holds comes back with the body's value, 'ms' as the float of the
\* same value; a field of AddCookie the body omits comes back as null, or
\* as false for secure and httpOnly.
C10_RoundTripOnFields ==
    (pc = "encoded" /\ route \in C10_RecordRoutes) =>
        /\ DOMAIN C10_Parameters = Fields(RouteRecord(route))
        /\ \A k \in DOMAIN C10_Parameters :
                CASE k \in DOMAIN C10_Body /\ k = "ms" ->
                        C10_Parameters[k] = JsonF64(unwrap(as_f64(C10_Body[k])))
                  [] k \in DOMAIN C10_Body /\ k # "ms" ->
                        C10_Parameters[k] = C10_Body[k]
                  [] k \notin DOMAIN C10_Body /\ k \in {"secure", "httpOnly"} ->
                        route = "AddCookie" /\ C10_Parameters[k] = JsonBoolean(FALSE)
                  [] OTHER -> route = "AddCookie" /\ C10_Parameters[k] = JsonNull

C10_Witness ==
    /\ pc = "encoded" /\ route = "AddCookie"
    /\ DOMAIN C10_Body = {"name", "value", "extra"}
    /\ DOMAIN C10_Parameters = AddCookieFields
    /\ C10_Parameters["name"] = C10_Body["name"]
    /\ C10_Parameters["path"] = JsonNull
    /\ C10_Parameters["secure"] = JsonBoolean(FALSE)

(***************************************************************************)
(* Properties of the validators (SpecParams).                              *)
(***************************************************************************)
Validated == pc \in {"validated", "record-encoded"}

C3_Validators ==
    {"GetParameters", "TimeoutsParameters", "WindowSizeParameters",
     "SwitchToWindowParameters", "LocatorParameters",
     "SwitchToFrameParameters", "SendKeysParameters",
     "JavascriptCommandParameters", "GetCookieParameters",
     "AddCookieParameters", "SendAlertTextParameters"}

\* The required fields of a record and the JSON types each accepts.
C3_Required(rec) ==
    IF rec = "AddCookieParameters" THEN {"name", "value"} ELSE Fields(rec)
C3_Types(rec, key) ==
    CASE rec = "TimeoutsParameters" /\ key = "ms" -> {"I64", "U64", "F64"}
      [] rec = "WindowSizeParameters" -> {"U64"}
      [] rec = "SwitchToFrameParameters" -> {"U64", "Null", "String"}
      [] rec = "SendKeysParameters" -> {"Array"}
      [] rec = "JavascriptCommandParameters" /\ key = "args" -> {"Array", "Null"}
      [] rec = "GetCookieParameters" -> {"String", "Null"}
      [] OTHER -> {"String"}
C3_BadField(rec, data) ==
    \E k \in C3_Required(rec) :
        k \notin DOMAIN data \/ data[k][1] \notin C3_Types(rec, k)

\* C3: a body object in which a required field is missing or of the wrong
\* JSON type makes every validator fail with InvalidArgument.
C3_RequiredField ==
    (Validated /\ record \in C3_Validators /\ json[1] = "Object"
        /\ C3_BadField(record, json[2])) => Fails("InvalidArgument")

\* C4: every validator fails with UnknownError, "Message body was not an
\* object", on a value that is no object.
C4_NotAnObject ==
    (Validated /\ json[1] # "Object") =>
        /\ Fails("UnknownError")
        /\ returned.error.message = "Message body was not an object"

(***************************************************************************)
(* Properties of the error taxonomy (SpecErr).                             *)
(***************************************************************************)
Raised == pc = "raised"
raised_error == unwrap(err)

\* C7: http_status gives every kind the status of the table.
C7_Table(kind) ==
    CASE kind \in {"InvalidSessionId", "NoSuchElement", "UnknownPath"} -> 404
      [] kind = "UnknownMethod" -> 405
      [] kind \in {"ScriptTimeout", "Timeout"} -> 408
      [] kind \in {"JavascriptError", "MoveTargetOutOfBounds",
                   "SessionNotCreated", "UnableToSetCookie",
                   "UnexpectedAlertOpen", "UnknownError",
                   "UnsupportedOperation"} -> 500
      [] OTHER -> 400

C7_HttpStatus ==
    (Raised /\ is_some(rendered.http_status)) =>
        unwrap(rendered.http_status) = C7_Table(raised_error.error)

C7_Witness ==
    /\ Raised /\ raised_error.error = "UnknownPath"
    /\ rendered.http_status = Some(404)

\* The words of each kind's wire string, as the table of error codes lists them.
C8_Words(kind) ==
    CASE kind = "ElementNotSelectable" -> <<"element", "not", "selectable">>
      [] kind = "ElementNotVisible" -> <<"element", "not", "visible">>
      [] kind = "InsecureCertificate" -> <<"insecure", "certificate">>
      [] kind = "InvalidArgument" -> <<"invalid", "argument">>
      [] kind = "InvalidCookieDomain" -> <<"invalid", "cookie", "domain">>
      [] kind = "InvalidElementCoordinates" ->
            <<"invalid", "element", "coordinates">>
      [] kind = "InvalidElementState" -> <<"invalid", "element", "state">>
      [] kind = "InvalidSelector" -> <<"invalid", "selector">>
      [] kind = "InvalidSessionId" -> <<"invalid", "session", "id">>
      [] kind = "JavascriptError" -> <<"javascript", "error">>
      [] kind = "MoveTargetOutOfBounds" ->
            <<"move", "target", "out", "of", "bounds">>
      [] kind = "NoSuchAlert" -> <<"no", "such", "alert">>
      [] kind = "NoSuchElement" -> <<"no", "such", "element">>
      [] kind = "NoSuchFrame" -> <<"no", "such", "frame">>
      [] kind = "NoSuchWindow" -> <<"no", "such", "window">>
      [] kind = "ScriptTimeout" -> <<"script", "timeout">>
      [] kind = "SessionNotCreated" -> <<"session", "not", "created">>
      [] kind = "StaleElementReference" -> <<"stale", "element", "reference">>
      [] kind = "Timeout" -> <<"timeout">>
      [] kind = "UnableToSetCookie" -> <<"unable", "to", "set", "cookie">>
      [] kind = "UnexpectedAlertOpen" -> <<"unexpected", "alert", "open">>
      [] kind = "UnknownError" -> <<"unknown", "error">>
      [] kind = "UnknownMethod" -> <<"unknown", "command">>
      [] kind = "UnknownPath" -> <<"unknown", "command">>
      [] kind = "UnsupportedOperation" -> <<"unsupported", "operation">>

RECURSIVE C8_Join(_, _)
C8_Join(words, separator) ==
    IF Len(words) = 1 THEN words[1]
    ELSE words[1] \o separator \o C8_Join(Tail(words), separator)

C9_SharedWireString ==
    (Raised /\ is_some(rendered.status_code)) =>
        /\ \A other \in ErrorStatus \ {raised_error.error} :
                unwrap(rendered.status_code) = status_code(other) =>
                    {raised_error.error, other} = {"UnknownMethod", "UnknownPath"}
        /\ raised_error.error = "UnknownMethod" =>
                /\ unwrap(rendered.status_code) = status_code("UnknownPath")
                /\ is_some(rendered.http_status) =>
                        /\ unwrap(rendered.http_status) = 405
                        /\ http_status("UnknownPath") = 404

C9_Witness ==
    /\ Raised /\ raised_error.error = "UnknownMethod"
    /\ rendered.status_code = Some(status_code("UnknownPath"))
    /\ rendered.http_status = Some(405)

(***************************************************************************)
(* Properties of the encoder (Spec).                                       *)
(***************************************************************************)
\* The variants of WebDriverCommand that hold a parameter record, and the
\* slot of the record.
C11_CarriesRecord(command) ==
    command.variant \in
        {"Get", "SetTimeouts", "SetWindowSize", "SwitchToWindow",
         "SwitchToFrame", "FindElement", "FindElements", "FindElementElement",
         "FindElementElements", "ElementSendKeys", "ExecuteScript",
         "ExecuteAsyncScript", "AddCookie", "SendAlertText"}
C11_Record(command) == command.args[Len(command.args)]

\* C11: the encoded message is an object whose only key is "parameters",
\* holding the JSON of the record, exactly when the command holds a record;
\* it is the empty object for every other command, whatever element handle,
\* path string or session id the message holds.
C11_ParametersOnly ==
    pc = "encoded" =>
        LET command == returned.value.command
            object == unwrap(encoded)
        IN  /\ object[1] = "Object"
            /\ DOMAIN object[2] =
                    IF C11_CarriesRecord(command) THEN {"parameters"} ELSE {}
            /\ C11_CarriesRecord(command) =>
                    object[2]["parameters"] =
                        Parameters_to_json(RouteRecord(command.variant),
                                           C11_Record(command))

C11_Witness ==
    /\ pc = "encoded"
    /\ returned.value.session_id = Some("session-1")
    /\ returned.value.command =
            Command("GetElementAttribute", <<WebElement_new("element-1"), "href">>)
    /\ encoded = Some(JsonObject(<<>>))

(***************************************************************************)
(* Properties of single validators (SpecParams).                           *)
(***************************************************************************)
\* A value is an object and holds an array under key; so does the value
\* handed to the validator.
C12_HoldsArrayIn(data, key) ==
    /\ data[1] = "Object"
    /\ key \in DOMAIN data[2]
    /\ data[2][key][1] = "Array"
C12_HoldsArray(key) == C12_HoldsArrayIn(json, key)
C12_Elements == json[2]["value"][2]
C12_OneCharacter(element) == element[1] = "String" /\ Len(element[2]) = 1

\* C12: SendKeys decodes the array 'value' to the sequence of its characters,
\* in order and one per element, the empty array to the empty sequence; an
\* element that is no string, the empty string or a string of more than one
\* character makes it fail with InvalidArgument.
C12_SendKeys ==
    (Validated /\ record = "SendKeysParameters" /\ C12_HoldsArray("value")) =>
        IF \A i \in 1..Len(C12_Elements) : C12_OneCharacter(C12_Elements[i])
        THEN /\ returned.ok
             /\ returned.value.value =
                    [i \in 1..Len(C12_Elements) |-> C12_Elements[i][2]]
        ELSE Fails("InvalidArgument")

C12_Witness ==
    /\ Validated /\ record = "SendKeysParameters"
    /\ json = JsonObject([k \in {"value"} |->
                            JsonArray(<<JsonString("a"), JsonString("b")>>)])
    /\ returned.ok /\ returned.value.value = <<"a", "b">>

\* The value handed to the validator is an object that holds strings under
\* 'name' and 'value'.
C13_NamedCookie ==
    /\ json[1] = "Object"
    /\ {"name", "value"} \subseteq DOMAIN json[2]
    /\ json[2]["name"][1] = "String"
    /\ json[2]["value"][1] = "String"

\* C13: AddCookie decodes a body that holds only the strings 'name' and
\* 'value' to a record with that name and value, secure and httpOnly false,
\* and path, domain, expiry and maxAge in the null state.
C13_Defaults ==
    (Validated /\ record = "AddCookieParameters" /\ C13_NamedCookie
        /\ DOMAIN json[2] = {"name", "value"}) =>
        /\ returned.ok
        /\ returned.value =
                [name |-> json[2]["name"][2], value |-> json[2]["value"][2],
                 path |-> NullableNull, domain |-> NullableNull,
                 expiry |-> NullableNull, maxAge |-> NullableNull,
                 secure |-> FALSE, httpOnly |-> FALSE]

C13_Witness ==
    /\ Validated /\ record = "AddCookieParameters"
    /\ json = JsonObject([k \in {"name", "value"} |->
                            IF k = "name" THEN JsonString("a")
                            ELSE JsonString("b")])
    /\ returned.ok
    /\ returned.value.name = "a" /\ returned.value.value = "b"
    /\ ~returned.value.secure /\ ~returned.value.httpOnly
    /\ is_null(returned.value.path) /\ is_null(returned.value.expiry)

\* The fields of AddCookie under the Nullable codec, and the value each
\* yields from a JSON value of its type, if the value is of its type.
C14_NullableFields == {"path", "domain", "expiry", "maxAge"}
C14_Typed(key, value) ==
    CASE key \in {"path", "domain"} /\ value[1] = "String" -> Some(value[2])
      [] key \in {"expiry", "maxAge"} /\ value[1] = "U64" ->
            Some(Date_new(value[2]))
      [] OTHER -> None
C14_NullState(data, key) == key \notin DOMAIN data \/ data[key] = JsonNull
C14_WrongType(data, key) ==
    ~C14_NullState(data, key) /\ ~is_some(C14_Typed(key, data[key]))
C14_Booleans(data) ==
    \A key \in {"secure", "httpOnly"} \cap DOMAIN data :
        data[key][1] = "Boolean"

\* C14: in AddCookie each of path, domain, expiry and maxAge decodes to the
\* null state when the key is absent and when it holds JSON null, and to the
\* value state when it holds a value of its type; a value of another type
\* makes the validator fail with InvalidArgument.
C14_NullableCodec ==
    (Validated /\ record = "AddCookieParameters" /\ C13_NamedCookie) =>
        LET data == json[2] IN
        /\ (\E key \in C14_NullableFields : C14_WrongType(data, key)) =>
                Fails("InvalidArgument")
        /\ ((\A key \in C14_NullableFields : ~C14_WrongType(data, key))
                /\ C14_Booleans(data)) => returned.ok
        /\ returned.ok =>
                \A key \in C14_NullableFields :
                    returned.value[key] =
                        IF C14_NullState(data, key) THEN NullableNull
                        ELSE NullableValue(unwrap(C14_Typed(key, data[key])))

C14_Witness ==
    /\ Validated /\ record = "AddCookieParameters" /\ json[1] = "Object"
    /\ DOMAIN json[2] = AddCookieFields \ {"path"}
    /\ json[2]["domain"] = JsonNull
    /\ json[2]["expiry"] = JsonU64(1)
    /\ returned.ok
    /\ returned.value.path = NullableNull
    /\ returned.value.domain = NullableNull
    /\ returned.value.expiry = NullableValue(Date_new(1))

\* C15: WindowSize decodes a body whose width and height are unsigned
\* integers to the record of that width and that height; without 'height' it
\* fails with InvalidArgument and a message that names height, whether or
\* not 'width' is there; without 'width' it fails with InvalidArgument.
C15_WindowSize ==
    (Validated /\ record = "WindowSizeParameters" /\ json[1] = "Object") =>
        LET data == json[2] IN
        /\ ({"width", "height"} \subseteq DOMAIN data
                /\ data["width"][1] = "U64" /\ data["height"][1] = "U64") =>
                /\ returned.ok
                /\ returned.value =
                        [width |-> data["width"][2], height |-> data["height"][2]]
        /\ "height" \notin DOMAIN data =>
                /\ Fails("InvalidArgument")
                /\ returned.error.message = "Missing 'height' parameter"
        /\ "width" \notin DOMAIN data => Fails("InvalidArgument")

C15_Witness ==
    /\ Validated /\ record = "WindowSizeParameters"
    /\ json = JsonObject([k \in {"width", "height"} |->
                            IF k = "width" THEN JsonU64(1) ELSE JsonU64(0)])
    /\ returned.ok
    /\ returned.value.width = 1 /\ returned.value.height = 0

(***************************************************************************)
(* Further properties of the decoder (Spec).                               *)
(***************************************************************************)
\* C16: a Get command is only ever returned with a url that is not empty.
C16_NonEmptyUrl ==
    (Decoded /\ returned.ok /\ returned.value.command.variant = "Get") =>
        returned.value.command.args[1].url # ""

(***************************************************************************)
(* Further properties of the errors (SpecErr).                             *)
(***************************************************************************)
\* C17: an error made by WebDriverError::new, by a From conversion or by a
\* failing decode or validator call has delete_session = false, and no
\* rendering of it changes that.
C17_KeepsSession == Raised => raised_error.delete_session = FALSE

C17_Witness ==
    /\ Raised
    /\ raised_error.error = "UnknownError"
    /\ raised_error.message = "Message body was not an object"
    /\ raised_error.delete_session = FALSE
    /\ is_some(rendered.json)

\* C18: the JSON of an error is an object with exactly the keys error,
\* message and stacktrace; error is the wire string of the error's kind, the
\* one its status_code gives, and message is the error's message.
C18_ThreeKeys ==
    (Raised /\ is_some(rendered.json)) =>
        LET object == unwrap(rendered.json) IN
        /\ object[1] = "Object"
        /\ DOMAIN object[2] = {"error", "message", "stacktrace"}
        /\ object[2]["error"] =
                JsonString(C8_Join(C8_Words(raised_error.error), " "))
        /\ is_some(rendered.status_code) =>
                object[2]["error"] = JsonString(unwrap(rendered.status_code))
        /\ object[2]["message"] = JsonString(raised_error.message)
        /\ object[2]["stacktrace"][1] = "String"

C18_Witness ==
    /\ Raised
    /\ raised_error.error = "NoSuchFrame" /\ raised_error.message = "no such frame"
    /\ rendered.status_code = Some("no such frame")
    /\ rendered.http_status = Some(400)
    /\ is_some(rendered.json)
    /\ unwrap(rendered.json)[2]["error"] = JsonString("no such frame")
    /\ unwrap(rendered.json)[2]["message"] = JsonString("no such frame")

(***************************************************************************)
(* Properties of the session id and of the order of the checks (Spec).     *)
(***************************************************************************)
\* The captures of the request without the one of the session.
C19_Sessionless == [n \in DOMAIN params \ {"sessionId"} |-> params[n]]

\* C19: a decoded message holds the captured sessionId, or none when
\* nothing was captured; the same request without the capture fails or
\* succeeds alike, with the same error or the same command.
C19_SessionId ==
    Decoded =>
        LET other == from_http(route, C19_Sessionless, body, requires_body) IN
        /\ returned.ok =>
                returned.value.session_id =
                    IF "sessionId" \in DOMAIN params
                    THEN Some(params["sessionId"]) ELSE None
        /\ other.ok = returned.ok
        /\ returned.ok =>
                /\ other.value.session_id = None
                /\ other.value.command = returned.value.command
        /\ ~returned.ok => other.error = returned.error

C19_Witness ==
    /\ Decoded /\ route = "NewSession" /\ params = <<>>
    /\ returned.ok
    /\ returned.value.session_id = None
    /\ returned.value.command = Command("NewSession", <<>>)

\* One check of a decode: whether the request fails it, and the message of
\* the error it then raises.
C20_Check(bad, message) == <<[bad |-> bad, message |-> message]>>

\* The JSON types a field accepts.
C20_Accepts(type, value) ==
    CASE type = "string" -> value[1] = "String"
      [] type = "unsigned" ->
            value[1] = "U64" \/ (value[1] = "I64" /\ value[2] >= 0)
      [] type = "number" -> value[1] \in {"I64", "U64", "F64"}
      [] type = "array" -> value[1] = "Array"
      [] type = "boolean" -> value[1] = "Boolean"
      [] type = "string or null" -> value[1] \in {"String", "Null"}
      [] type = "unsigned or null" ->
            \/ value[1] \in {"U64", "Null"}
            \/ (value[1] = "I64" /\ value[2] >= 0)
      [] type = "array or null" -> value[1] \in {"Array", "Null"}
      [] type = "locator strategy" -> LocatorStrategy_from_json(value).ok
      [] type = "frame id" -> FrameId_from_json(value).ok

\* The checks of one field of a body object: that of its presence, unless
\* the field is optional (no message), and that of its type.
C20_Holds(data, key) == data[1] = "Object" /\ key \in DOMAIN data[2]
C20_Presence(data, key, missing) ==
    C20_Check(data[1] = "Object" /\ key \notin DOMAIN data[2], missing)
C20_Type(data, key, type, wrong) ==
    C20_Check(C20_Holds(data, key) /\ ~C20_Accepts(type, data[2][key]), wrong)
C20_Field(data, key, type, missing, wrong) ==
    C20_Presence(data, key, missing) \o C20_Type(data, key, type, wrong)

\* The checks of the fields of each record, in the order claimed.
C20_FieldChecks(rec, data) ==
    CASE rec = "GetParameters" ->
            C20_Field(data, "url", "string",
                      "Missing 'url' parameter", "'url' not a string")
      [] rec = "TimeoutsParameters" ->
            C20_Field(data, "type", "string",
                      "Missing 'type' parameter", "'type' not a string")
            \o C20_Field(data, "ms", "number",
                         "Missing 'ms' parameter", "'ms' not a float")
      [] rec = "WindowSizeParameters" ->
            C20_Field(data, "height", "unsigned", "Missing 'height' parameter",
                      "'height' is not a positive integer")
            \o C20_Field(data, "width", "unsigned", "Missing width parameter",
                         "'width' is not a positive integer")
      [] rec = "SwitchToWindowParameters" ->
            C20_Field(data, "handle", "string",
                      "Missing 'handle' parameter", "'handle' not a string")
      [] rec = "LocatorParameters" ->
            C20_Field(data, "using", "locator strategy",
                      "Missing 'using' parameter",
                      LocatorStrategy_from_json(JsonNull).error.message)
            \o C20_Field(data, "value", "string", "Missing 'value' parameter",
                         "Could not convert using to string")
      [] rec = "SwitchToFrameParameters" ->
            C20_Field(data, "id", "frame id", "Missing 'id' parameter",
                      FrameId_from_json(JsonBoolean(TRUE)).error.message)
      [] rec = "SendKeysParameters" ->
            C20_Field(data, "value", "array", "Missing 'value' parameter",
                      "Could not convert 'value' to array")
            \o C20_Check(C12_HoldsArrayIn(data, "value")
                            /\ \E i \in 1..Len(data[2]["value"][2]) :
                                ~C12_OneCharacter(data[2]["value"][2][i]),
                         "Value was not a string")
      [] rec = "JavascriptCommandParameters" ->
            C20_Field(data, "args", "array or null", "Missing args parameter",
                      "Failed to convert args to Array")
            \o C20_Field(data, "script", "string", "Missing script parameter",
                         "Failed to convert script to String")
      [] rec = "AddCookieParameters" ->
            C20_Field(data, "name", "string",
                      "Missing 'name' parameter", "'name' is not a string")
            \o C20_Field(data, "value", "string",
                         "Missing 'value' parameter", "'value' is not a string")
            \o C20_Type(data, "path", "string or null",
                        "Failed to convert path to String")
            \o C20_Type(data, "domain", "string or null",
                        "Failed to convert domain to String")
            \o C20_Type(data, "expiry", "unsigned or null",
                        "Failed to convert expiry to Date")
            \o C20_Type(data, "maxAge", "unsigned or null",
                        "Failed to convert expiry to Date")
            \o C20_Type(data, "secure", "boolean",
                        "Failed to convert secure to boolean")
            \o C20_Type(data, "httpOnly", "boolean",
                        "Failed to convert httpOnly to boolean")
      [] rec = "SendAlertTextParameters" ->
            C20_Field(data, "keysToSend", "string",
                      "Missing 'handle' parameter", "'keysToSend' not a string")

\* The checks of a request in the order claimed: the gate of the body, the
\* elementId capture, then the name capture or the validator, which looks
\* at the body being an object before it looks at the fields.
C20_Gate ==
    IF ~requires_body THEN <<>>
    ELSE C20_Check(body[1] = "text",
                   IF body[1] = "text"
                   THEN "Failed to decode request body as json: " \o body[2]
                   ELSE "")
         \o C20_Check(body[1] = "json" /\ body[2][1] # "Object",
                      "Body was not a json object")
C20_ElementId ==
    IF route \in ElementRoutes \cup ElementNameRoutes \cup ElementRecordRoutes
    THEN C20_Check("elementId" \notin DOMAIN params, "Missing elementId parameter")
    ELSE <<>>
C20_Name ==
    CASE route \in {"GetElementAttribute", "GetCookie", "DeleteCookie"} ->
            C20_Check("name" \notin DOMAIN params, "Missing name parameter")
      [] route = "GetCSSValue" ->
            C20_Check("propertyName" \notin DOMAIN params,
                      "Missing propertyName parameter")
      [] OTHER -> <<>>
C20_BodyData ==
    IF requires_body /\ IsJsonObject(body) THEN body[2] ELSE JsonNull
C20_Validator ==
    IF route \in RecordRoutes \cup ElementRecordRoutes
    THEN C20_Check(C20_BodyData[1] # "Object", "Message body was not an object")
         \o C20_FieldChecks(RouteRecord(route), C20_BodyData)
    ELSE <<>>
C20_Checks == C20_Gate \o C20_ElementId \o C20_Name \o C20_Validator
C20_Failing == {i \in 1..Len(C20_Checks) : C20_Checks[i].bad}

\* C20: a decode fails exactly when the request fails one of the checks, and
\* the error it returns is the one of the first check the request fails, in
\* the order of C20_Checks, whatever later checks it would fail too.
C20_FirstFailure ==
    Decoded =>
        /\ returned.ok = (C20_Failing = {})
        /\ ~returned.ok =>
                \E first \in C20_Failing :
                    /\ \A i \in C20_Failing : first <= i
                    /\ returned.error.message = C20_Checks[first].message

C20_Witness ==
    /\ Decoded /\ route = "ElementSendKeys" /\ requires_body
    /\ "elementId" \notin DOMAIN params
    /\ body = JsonBody(JsonObject(<<>>))
    /\ Cardinality(C20_Failing) = 2
    /\ ~returned.ok
    /\ returned.error.message = "Missing elementId parameter"

(***************************************************************************)
(* Properties of the record routes decoded without a body (Spec).          *)
(***************************************************************************)
\* The kind each record route reports for a body that is no object.
C21_Kind(match_type) ==
    IF match_type \in {"Get", "SetTimeouts", "SetWindowSize", "SwitchToWindow",
                       "SwitchToFrame", "FindElement", "FindElements",
                       "FindElementElement", "FindElementElements"}
    THEN "UnknownError" ELSE "InvalidArgument"
C21_NoBody ==
    Decoded /\ ~requires_body /\ route \in RecordRoutes \cup ElementRecordRoutes
C21_NotAnObject ==
    /\ Fails(C21_Kind(route))
    /\ returned.error.message = "Message body was not an object"

\* C21 as claimed: with requires_body = false every record route fails,
\* whatever the body, as its validator rejects JSON null as not an object,
\* with UnknownError or InvalidArgument by route.
C21_AlwaysNotAnObject == C21_NoBody => C21_NotAnObject

\* C21 as amended: with requires_body = false every record route fails,
\* whatever the body; the validator rejects JSON null as not an object, with
\* UnknownError or InvalidArgument by route, unless the route is one of
\* FindElementElement, FindElementElements and ElementSendKeys and the
\* elementId capture is missing, which fails first, with InvalidArgument.
C21_FailsWithoutBody ==
    C21_NoBody =>
        IF route \in ElementRecordRoutes /\ "elementId" \notin DOMAIN params
        THEN /\ Fails("InvalidArgument")
             /\ returned.error.message = "Missing elementId parameter"
        ELSE C21_NotAnObject

C21_Witness ==
    /\ C21_NoBody
    /\ route = "FindElementElement" /\ "elementId" \in DOMAIN params
    /\ body = JsonBody(JsonObject(CompleteBody("LocatorParameters")))
    /\ Fails("UnknownError")
    /\ returned.error.message = "Message body was not an object"

\* A script route is decoded from a body object, with the body read.
C22_Script ==
    /\ Decoded /\ requires_body
    /\ route \in {"ExecuteScript", "ExecuteAsyncScript"}
    /\ IsJsonObject(body)
C22_Body == body[2][2]
C22_ValidScript ==
    "script" \in DOMAIN C22_Body /\ C22_Body["script"][1] = "String"

\* C22: ExecuteScript and ExecuteAsyncScript fail with InvalidArgument on a
\* body without 'args', also when 'script' is a string; with a string
\* 'script', 'args' null decodes to the null state, 'args' an array decodes
\* to that array, and 'args' of any other type fails with InvalidArgument.
C22_ArgsRequired ==
    C22_Script =>
        /\ "args" \notin DOMAIN C22_Body =>
                /\ Fails("InvalidArgument")
                /\ returned.error.message = "Missing args parameter"
        /\ ("args" \in DOMAIN C22_Body /\ C22_ValidScript) =>
                LET args == C22_Body["args"] IN
                CASE args[1] = "Null" ->
                        /\ returned.ok
                        /\ returned.value.command.args[1].args = NullableNull
                  [] args[1] = "Array" ->
                        /\ returned.ok
                        /\ returned.value.command.args[1].args =
                                NullableValue(args[2])
                  [] OTHER -> Fails("InvalidArgument")
        /\ returned.ok =>
                returned.value.command.args[1].script = C22_Body["script"][2]

C22_Witness ==
    /\ C22_Script /\ route = "ExecuteAsyncScript"
    /\ C22_Body = [k \in {"script"} |-> JsonString("a")]
    /\ Fails("InvalidArgument")
    /\ returned.error.message = "Missing args parameter"

====
